---- MODULE Spec2Model ----
(***************************************************************************)
(* Smart Village backend (app.py): the Flask-SocketIO room registry, the   *)
(* commit-then-emit REST handlers and the chat persistence / relay.        *)
(*                                                                         *)
(* A connection is a Socket.IO session id (sid).  The server keeps, per    *)
(* room name, the set of sids entered into it; on connect a sid is entered *)
(* into the room that carries its own name, and an emit addressed to one   *)
(* connection is an emit to that room.  Room None holds every live sid.    *)
(*                                                                         *)
(* The server runs with async_mode='threading': every request and every    *)
(* socket event is handled on a thread of its own.  A handler is therefore *)
(* a sequence of steps (a read, the INSERT that draws an id, the commit,   *)
(* the reads that build a payload, the emit), and the steps of the         *)
(* handlers in flight interleave.  Two requests with the same content are   *)
(* two threads: each thread record carries the slot (tid) it runs in.      *)
(***************************************************************************)
EXTENDS Integers, Sequences, FiniteSets, TLC

\* ---------------------------------------------------------------- bounds
MaxSid == 2
MaxLog == 3
MaxReq == 3
MaxClock == 2
MaxSend == 3
MaxRest == 2
MaxThreads == 2
MaxUserId == 3

\* ------------------------------------------------------- python values
PyNone == "<None>"
Missing == "<missing>"

\* data.get(key): an absent key reads as None
Get(v) == IF v = Missing THEN PyNone ELSE v

\* data.get(key, default): only an absent key takes the default
GetDefault(v, d) == IF v = Missing THEN d ELSE v

\* a null and an absent integer field (ids are integers, names are strings)
IdNone == -1
IdMissing == -2

\* data.get(key) and data.get(key, default) for an integer field
GetId(v) == IF v = IdMissing THEN IdNone ELSE v

GetIdDefault(v, d) == IF v = IdMissing THEN d ELSE v

\* Python truthiness of a string-valued field
Truthy(v) == v \notin {PyNone, Missing, ""}

\* Python truthiness of an integer-valued field
TruthyId(v) == v \notin {IdNone, IdMissing, 0}

\* ------------------------------------------------------------ universe
SidName(n) == "sid" \o ToString(n)

AllSids == {SidName(n) : n \in 1..MaxSid}

\* f'user_{user_id}'
UserRoom(user_id) == "user_" \o (IF user_id = IdNone THEN "None" ELSE ToString(user_id))

UserIdInputs == {1, 3}

RoomNames ==
    {"admins", "general", "general_chat"}
        \cup {UserRoom(u) : u \in UserIdInputs \cup {IdNone}} \cup AllSids

VARIABLES
    connected,    \* sids of the live connections (members of room None)
    earlier,      \* sid -> the sids that had disconnected when it connected
    nextSid,      \* number of sids handed out so far
    rooms,        \* room name -> set of sids entered into it
    log,          \* every emit call so far, in order, with the sids it reached
    users,        \* users table: user_id -> row
    chat_messages,\* chat_messages table: set of rows
    msgSeq,       \* chat_messages.message_id sequence: last value handed out
    tables,       \* the other tables: table name -> set of rows
    idSeq,        \* the primary-key sequences: table name -> last value
    nreq,         \* number of requests started so far that commit a transaction
    committed,    \* the sends, votes and publishing requests whose commit succeeded
    failed,       \* the sends, votes and publishing requests whose commit failed
    pending,      \* the handlers in flight, each with the step it has reached
    clock,        \* datetime.utcnow(), in ticks
    history,      \* body of the last GET /chat-messages response
    response,     \* handler and status code of the last HTTP response
    joined,       \* <<sid, room>> pairs a join handler has entered
    left          \* <<sid, room>> pairs whose last membership request was a leave

vars == <<connected, earlier, nextSid, rooms, log, users, chat_messages, msgSeq,
          tables, idSeq, nreq, committed, failed, pending, clock, history,
          response, joined, left>>

regVars == <<connected, earlier, nextSid, rooms>>
dbVars == <<users, chat_messages, msgSeq, tables, idSeq, nreq, committed, failed>>

\* sids handed out so far
Allocated == {SidName(n) : n \in 1..nextSid}

\* ------------------------------------------------------ Flask-SocketIO
\* a broadcast that is handled as an emit to the room 'general'
Participants_GeneralOnly(r, conn, room) == IF room = PyNone THEN r["general"] ELSE r[room]

\* an emit that stops at the first participant of the room
Participants_FirstOnly(r, conn, room) ==
    LET all == IF room = PyNone THEN conn ELSE r[room] IN
    IF all = {} THEN {} ELSE {CHOOSE sid \in all : TRUE}

\* the sids an emit to `room` reaches in registry r with live set conn:
\* room None is every live connection
Participants(r, conn, room) == IF room = PyNone THEN conn ELSE r[room]

\* an emit whose packet overtakes the packets sent before it
Emit_Overtakes(lg, event, payload, room, ctx, r, conn) ==
    <<[event |-> event, payload |-> payload, room |-> room,
       to |-> Participants(r, conn, room), rid |-> ctx.rid, sid |-> ctx.sid]>> \o lg

\* socketio.emit(event, payload, room=room) / emit(event, payload, room=room):
\* one packet to every participant of the room at the time of the call
\* (ctx is the request the call is made in: its mutation id and, for a socket
\* handler, request.sid)
Emit(lg, event, payload, room, ctx, r, conn) ==
    Append(lg, [event |-> event, payload |-> payload, room |-> room,
                to |-> Participants(r, conn, room), rid |-> ctx.rid, sid |-> ctx.sid])

\* request context of a socket handler that mutates nothing
SockCtx(sid) == [rid |-> 0, sid |-> sid]

\* request context of an HTTP handler
HttpCtx(rid) == [rid |-> rid, sid |-> PyNone]

\* a join_room that does not enter the sid into the room
EnterRoom_Forgets(r, sid, room) == r

\* join_room(room) for the requesting sid
EnterRoom(r, sid, room) == [r EXCEPT ![room] = @ \cup {sid}]

\* a leave_room that forgets to take the sid out of the room
LeaveRoom_Keeps(r, sid, room) == r

\* leave_room(room) for the requesting sid
LeaveRoom(r, sid, room) == [r EXCEPT ![room] = @ \ {sid}]

\* a disconnect that clears only the sid's own room
DisconnectRooms_OwnOnly(r, sid) == [r EXCEPT ![sid] = @ \ {sid}]

\* the server's disconnect: the sid leaves every room
DisconnectRooms(r, sid) == [room \in DOMAIN r |-> r[room] \ {sid}]

\* room names a client can send with a membership request: a fixed name, a
\* falsy value, or a sid that exists already (a new sid is random, so no
\* earlier request can have named it)
RoomInputs == {Missing, "", "admins"} \cup Allocated

SenderInputs == {IdMissing, 1}

ContentInputs == {"", "hi"}

\* ---------------------------------------------------- handlers in flight
\* a new handler thread can start
CanStart == Cardinality(pending) < MaxThreads

\* a new handler thread that will emit can start
CanStartEmitter == CanStart /\ Len(log) + Cardinality(pending) < MaxLog

\* the mutating requests still in flight
InFlight == {p.rid : p \in pending}

\* thread slots taken by the handlers in flight
Tids == {p.tid : p \in pending}

\* the slot a handler that starts now runs in: the lowest free one
NewTid == CHOOSE n \in 1..MaxThreads :
              n \notin Tids /\ \A m \in 1..MaxThreads : m \notin Tids => n <= m

\* a membership handler between its join_room / leave_room call and its emit
Ack(op, sid, msg) ==
    [op |-> op, pc |-> "ack", rid |-> 0, tid |-> NewTid, sid |-> sid, msg |-> msg]

\* emit('status', {'msg': ...}, room=request.sid), the last line of the three
\* membership handlers
StatusAck(p) ==
    /\ p \in pending
    /\ p.pc = "ack"
    /\ log' = Emit(log, "status", [msg |-> p.msg], p.sid, SockCtx(p.sid), rooms, connected)
    /\ pending' = pending \ {p}
    /\ UNCHANGED <<regVars, dbVars, clock, history, response, joined, left>>

\* --------------------------------------------------------- connection
\* handle_connect: the server has registered the new sid and entered it into
\* its own room; the handler only prints
handle_connect ==
    /\ nextSid < MaxSid
    /\ LET sid == SidName(nextSid + 1) IN
        /\ nextSid' = nextSid + 1
        /\ earlier' = [earlier EXCEPT ![sid] = Allocated \ connected]
        /\ connected' = connected \cup {sid}
        /\ rooms' = EnterRoom(rooms, sid, sid)
    /\ UNCHANGED <<log, dbVars, pending, clock, history, response, joined, left>>

\* handle_disconnect: the handler only prints; the server drops the sid
handle_disconnect(sid) ==
    /\ sid \in connected
    /\ connected' = connected \ {sid}
    /\ rooms' = DisconnectRooms(rooms, sid)
    /\ UNCHANGED <<nextSid, earlier, log, dbVars, pending, clock, history, response,
                   joined, left>>

\* a join handler with a role check that an unauthenticated connection does
\* not pass: a request for the admins room is answered with an error
handle_join_chat_room_StaffOnly(sid, room_in) ==
    /\ sid \in connected
    /\ LET room_name == Get(room_in) IN
        IF Truthy(room_name)
        THEN /\ CanStartEmitter
             /\ IF room_name = "admins"
                THEN /\ log' = Emit(log, "error", [message |-> "Forbidden"], sid,
                                     SockCtx(sid), rooms, connected)
                     /\ UNCHANGED <<rooms, joined, left, pending>>
                ELSE /\ rooms' = EnterRoom(rooms, sid, room_name)
                     /\ joined' = joined \cup {<<sid, room_name>>}
                     /\ left' = left \ {<<sid, room_name>>}
                     /\ pending' = pending \cup
                            {Ack("join_chat_room", sid, "Joined " \o room_name)}
                     /\ log' = log
        ELSE UNCHANGED <<rooms, log, joined, left, pending>>
    /\ UNCHANGED <<connected, earlier, nextSid, dbVars, clock, history, response>>

\* a join handler that sends the new member the events published to the
\* room before it joined
handle_join_chat_room_Replays(sid, room_in) ==
    /\ sid \in connected
    /\ LET room_name == Get(room_in)
           past == SelectSeq(log, LAMBDA e : e.event \notin {"status", "error"}
                                               /\ e.room = room_name) IN
        IF Truthy(room_name)
        THEN /\ CanStartEmitter
             /\ rooms' = EnterRoom(rooms, sid, room_name)
             /\ joined' = joined \cup {<<sid, room_name>>}
             /\ left' = left \ {<<sid, room_name>>}
             /\ pending' = pending \cup {Ack("join_chat_room", sid, "Joined " \o room_name)}
             /\ log' = log \o [i \in 1..Len(past) |-> [past[i] EXCEPT !.to = {sid}, !.room = sid]]
        ELSE UNCHANGED <<rooms, joined, left, pending, log>>
    /\ UNCHANGED <<connected, earlier, nextSid, dbVars, clock, history, response>>

\* handle_join_chat_room, up to and including join_room(room_name)
handle_join_chat_room(sid, room_in) ==
    /\ sid \in connected
    /\ LET room_name == Get(room_in) IN
        IF Truthy(room_name)
        THEN /\ CanStartEmitter
             /\ rooms' = EnterRoom(rooms, sid, room_name)
             /\ joined' = joined \cup {<<sid, room_name>>}
             /\ left' = left \ {<<sid, room_name>>}
             /\ pending' = pending \cup {Ack("join_chat_room", sid, "Joined " \o room_name)}
        ELSE UNCHANGED <<rooms, joined, left, pending>>
    /\ UNCHANGED <<connected, earlier, nextSid, log, dbVars, clock, history, response>>

\* handle_join_chat_room: its emit
handle_join_chat_room_emit(p) == p.op = "join_chat_room" /\ StatusAck(p)

\* handle_leave_chat_room, up to and including leave_room(room_name)
handle_leave_chat_room(sid, room_in) ==
    /\ sid \in connected
    /\ LET room_name == Get(room_in) IN
        IF Truthy(room_name)
        THEN /\ CanStartEmitter
             /\ rooms' = LeaveRoom(rooms, sid, room_name)
             /\ left' = left \cup {<<sid, room_name>>}
             /\ joined' = joined
             /\ pending' = pending \cup {Ack("leave_chat_room", sid, "Left " \o room_name)}
        ELSE UNCHANGED <<rooms, joined, left, pending>>
    /\ UNCHANGED <<connected, earlier, nextSid, log, dbVars, clock, history, response>>

\* handle_leave_chat_room: its emit
handle_leave_chat_room_emit(p) == p.op = "leave_chat_room" /\ StatusAck(p)

\* handle_join_user_room, up to and including join_room(room_name)
handle_join_user_room(sid, user_id) ==
    /\ sid \in connected
    /\ (  IF TruthyId(user_id)
        THEN LET room_name == UserRoom(user_id) IN
             /\ CanStartEmitter
             /\ rooms' = EnterRoom(rooms, sid, room_name)
             /\ joined' = joined \cup {<<sid, room_name>>}
             /\ left' = left \ {<<sid, room_name>>}
             /\ pending' = pending \cup
                    {Ack("join_user_room", sid, "Joined personal room " \o room_name)}
        ELSE UNCHANGED <<rooms, joined, left, pending>>)
    /\ UNCHANGED <<connected, earlier, nextSid, log, dbVars, clock, history, response>>

\* handle_join_user_room: its emit
handle_join_user_room_emit(p) == p.op = "join_user_room" /\ StatusAck(p)

\* ---------------------------------------------------------------- chat
\* ChatMessages.room_name: a None passed to the constructor takes the column
\* default
StoredRoom(room_name) == IF room_name = PyNone THEN "general" ELSE room_name

\* datetime.isoformat(): the timestamp as text
IsoFormat(ts) == "T" \o ToString(ts)

\* name[0].upper() for the names the tables hold
FirstUpper(name) ==
    CASE name = "Admin User" -> "A"
      [] name = "Resident User" -> "R"
      [] name = "Unknown User" -> "U"
      [] name = "Zed" -> "Z"
      [] OTHER -> "?"

\* sender_name (lines 953 and 1002)
SenderName(u, sender_id) ==
    IF sender_id \in DOMAIN u THEN u[sender_id].name ELSE "Unknown User"

\* sender_avatar (lines 954 and 1003)
SenderAvatar(u, sender_id) ==
    IF sender_id \in DOMAIN u
    THEN u[sender_id].avatar
    ELSE LET sender_name == SenderName(u, sender_id) IN
         IF sender_name # "" THEN FirstUpper(sender_name) ELSE "?"

\* the dictionary built for one chat row from the sender fields resolved for it
MessageDict(row, sender_name, sender_avatar) ==
    [message_id |-> row.message_id,
     sender_id |-> row.sender_id,
     sender_name |-> sender_name,
     sender_avatar |-> sender_avatar,
     content |-> row.content,
     timestamp |-> IsoFormat(row.timestamp),
     room_name |-> row.room_name]

\* the dictionary built for one chat row with the sender read from users table u
MessagePayload(u, row) ==
    MessageDict(row, SenderName(u, row.sender_id), SenderAvatar(u, row.sender_id))

\* lines 988-990: the validation of a send_message request
Rejected(sender_id, content) == ~TruthyId(sender_id) \/ ~Truthy(content)

\* lines 984-998: a send_message handler that has passed validation, with the
\* timestamp default of its new row; the id and the sender fields are filled
\* in by the steps that follow
SendRequest(rid, sid, sender_in, content_in, room_in, now) ==
    [op |-> "send_message", pc |-> "insert", rid |-> rid, tid |-> 0, sid |-> sid,
     sender_id |-> GetId(sender_in),
     content |-> Get(content_in),
     room_name |-> GetDefault(room_in, "general_chat"),
     timestamp |-> now, message_id |-> 0, sender_name |-> "", sender_avatar |-> ""]

\* the row a send_message request inserts
NewMessage(p, message_id) ==
    [message_id |-> message_id, sender_id |-> p.sender_id, content |-> p.content,
     timestamp |-> p.timestamp, room_name |-> StoredRoom(p.room_name)]

\* the ways out of a handler's commit: the commit succeeds and the handler
\* runs on; the commit raises; the commit succeeds and a later read of the
\* database raises
Outcomes == {"ok", "commit_fail", "read_fail"}

\* and, for a handler that inserts a row: the INSERT raises before an id is
\* drawn
SendOutcomes == Outcomes \cup {"flush_fail"}

\* where send_message emits its event once the row is committed
SendTarget(p) == p.room_name

\* lines 989-990: the answer to a request that fails validation
SendInvalid(sid) ==
    /\ Len(log) + Cardinality(pending) < MaxLog
    /\ log' = Emit(log, "error", [message |-> "Missing sender_id or content"],
                    sid, SockCtx(sid), rooms, connected)

\* lines 1016-1019: the except branch, which rolls back and answers the sender
SendFailed(p) ==
    /\ log' = Emit(log, "error", [message |-> "Failed to send message"],
                    p.sid, [rid |-> p.rid, sid |-> p.sid], rooms, connected)
    /\ pending' = pending \ {p}

\* handle_send_message up to the flush: the validation, the new row and the
\* Python-side timestamp default that the flush computes before it sends the
\* INSERT
handle_send_message(sid, sender_in, content_in, room_in) ==
    /\ sid \in connected
    /\ IF Rejected(GetId(sender_in), Get(content_in))
       THEN /\ SendInvalid(sid)
            /\ UNCHANGED <<nreq, pending>>
       ELSE /\ nreq < MaxSend
            /\ CanStartEmitter
            /\ nreq' = nreq + 1
            /\ pending' = pending \cup
                   {SendRequest(nreq + 1, sid, sender_in, content_in, room_in, clock)}
            /\ log' = log
    /\ UNCHANGED <<regVars, users, chat_messages, msgSeq, tables, idSeq, committed,
                   failed, clock, history, response, joined, left>>

\* the INSERT reaches the database, which draws the message_id from the
\* sequence of the table
handle_send_message_insert(p, outcome) ==
    /\ p \in pending
    /\ p.op = "send_message" /\ p.pc = "insert"
    /\ outcome \in {"ok", "flush_fail"}
    /\ IF outcome = "ok"
       THEN /\ msgSeq' = msgSeq + 1
            /\ pending' = (pending \ {p}) \cup
                   {[p EXCEPT !.pc = "commit", !.message_id = msgSeq + 1]}
            /\ UNCHANGED <<log, failed>>
       ELSE /\ SendFailed(p)
            /\ failed' = failed \cup {[rid |-> p.rid, op |-> "send_message"]}
            /\ msgSeq' = msgSeq
    /\ UNCHANGED <<regVars, users, chat_messages, tables, idSeq, nreq, committed, clock,
                   history, response, joined, left>>

\* db.session.commit(): the row becomes visible, or the commit raises
handle_send_message_commit(p, outcome) ==
    /\ p \in pending
    /\ p.op = "send_message" /\ p.pc = "commit"
    /\ outcome \in {"ok", "commit_fail"}
    /\ IF outcome = "ok"
       THEN /\ chat_messages' = chat_messages \cup {NewMessage(p, p.message_id)}
            /\ committed' = committed \cup {[rid |-> p.rid, op |-> "send_message"]}
            /\ pending' = (pending \ {p}) \cup {[p EXCEPT !.pc = "lookup"]}
            /\ UNCHANGED <<log, failed>>
       ELSE /\ SendFailed(p)
            /\ failed' = failed \cup {[rid |-> p.rid, op |-> "send_message"]}
            /\ UNCHANGED <<chat_messages, committed>>
    /\ UNCHANGED <<regVars, users, msgSeq, tables, idSeq, nreq, clock, history, response,
                   joined, left>>

\* lines 1001-1003: Users.query.get(sender_id), or a read after the commit
\* raises
handle_send_message_lookup(p, outcome) ==
    /\ p \in pending
    /\ p.op = "send_message" /\ p.pc = "lookup"
    /\ outcome \in {"ok", "read_fail"}
    /\ IF outcome = "ok"
       THEN /\ pending' = (pending \ {p}) \cup
                   {[p EXCEPT !.pc = "reload",
                              !.sender_name = SenderName(users, p.sender_id),
                              !.sender_avatar = SenderAvatar(users, p.sender_id)]}
            /\ log' = log
       ELSE SendFailed(p)
    /\ UNCHANGED <<regVars, dbVars, clock, history, response, joined, left>>

\* lines 1005-1013: the payload reads the attributes of new_message, which
\* the commit has expired: the row is read back as the table holds it now
handle_send_message_reload(p) ==
    /\ p \in pending
    /\ p.op = "send_message" /\ p.pc = "reload"
    /\ LET row == CHOOSE m \in chat_messages : m.message_id = p.message_id IN
       pending' = (pending \ {p}) \cup
           {[p EXCEPT !.pc = "emit", !.sender_id = row.sender_id]}
    /\ UNCHANGED <<regVars, log, dbVars, clock, history, response, joined, left>>

\* line 1015: socketio.emit('receive_message', message_payload, room=room_name)
handle_send_message_emit(p) ==
    /\ p \in pending
    /\ p.op = "send_message" /\ p.pc = "emit"
    /\ log' = Emit(log, "receive_message",
                    MessageDict(NewMessage(p, p.message_id), p.sender_name, p.sender_avatar),
                    SendTarget(p), [rid |-> p.rid, sid |-> p.sid], rooms, connected)
    /\ pending' = pending \ {p}
    /\ UNCHANGED <<regVars, dbVars, clock, history, response, joined, left>>

\* datetime.utcnow() moves on
Tick ==
    /\ clock < MaxClock
    /\ clock' = clock + 1
    /\ UNCHANGED <<regVars, log, dbVars, pending, history, response, joined, left>>

\* whether sequence h lists exactly the rows of set S, each once
IsListing(h, S) ==
    /\ Len(h) = Cardinality(S)
    /\ {h[i] : i \in 1..Len(h)} = S

\* the orders ORDER BY timestamp ASC may return the rows in
OrderByTimestamp(S) ==
    {h \in [1..Cardinality(S) -> S] :
        /\ IsListing(h, S)
        /\ \A i, j \in 1..Len(h) : i < j => h[i].timestamp <= h[j].timestamp}

\* a GET /chat-messages handler after its list query: the rows it loaded, the
\* entries built so far, and the user rows its session holds
HistoryRequest(messages) ==
    [op |-> "get_chat_messages", pc |-> "sender", rid |-> 0, tid |-> NewTid,
     rows |-> messages, result |-> <<>>, loaded |-> {}]

\* the users table as a session sees it that holds the rows in `loaded`: a
\* row loaded earlier in the request is not read again, whatever has become
\* of it in the table
SessionUsers(p) ==
    [user_id \in DOMAIN users \cup {l.user_id : l \in p.loaded} |->
        IF \E l \in p.loaded : l.user_id = user_id
        THEN (CHOOSE l \in p.loaded : l.user_id = user_id).row
        ELSE users[user_id]]

\* get_chat_messages: the list query (line 949); without rows the handler
\* returns at once
get_chat_messages ==
    /\ \E messages \in OrderByTimestamp(chat_messages) :
          IF messages = <<>>
          THEN /\ history' = <<>>
               /\ response' = [op |-> "get_chat_messages", status |-> 200]
               /\ pending' = pending
          ELSE /\ CanStart
               /\ pending' = pending \cup {HistoryRequest(messages)}
               /\ UNCHANGED <<history, response>>
    /\ UNCHANGED <<regVars, log, dbVars, clock, joined, left>>

\* get_chat_messages: one turn of the loop, which loads msg.sender unless the
\* session holds that user already; after the last row the handler returns
get_chat_messages_sender(p) ==
    /\ p \in pending
    /\ p.op = "get_chat_messages"
    /\ LET msg == p.rows[Len(p.result) + 1]
           seen == SessionUsers(p)
           result == Append(p.result, MessagePayload(seen, msg))
           loaded == IF msg.sender_id \in DOMAIN seen
                     THEN p.loaded \cup {[user_id |-> msg.sender_id,
                                          row |-> seen[msg.sender_id]]}
                     ELSE p.loaded IN
       IF Len(result) = Len(p.rows)
       THEN /\ history' = result
            /\ response' = [op |-> "get_chat_messages", status |-> 200]
            /\ pending' = pending \ {p}
       ELSE /\ pending' = (pending \ {p}) \cup
                   {[p EXCEPT !.result = result, !.loaded = loaded]}
            /\ UNCHANGED <<history, response>>
    /\ UNCHANGED <<regVars, log, dbVars, clock, joined, left>>

\* ---------------------------------------------------------- REST layer
\* Model.query.get_or_404(id) found no row: the request is answered with 404
\* before the handler does anything else
NotFound(op) ==
    /\ response' = [op |-> op, status |-> 404]
    /\ UNCHANGED <<regVars, log, dbVars, pending, clock, history, joined, left>>

\* the place of a row in a handler that has loaded none
NoUser == [name |-> "", username |-> "", avatar |-> ""]

\* Users.query.filter_by(username=...).first() finds a row
UsernameTaken(u, username) == \E user_id \in DOMAIN u : u[user_id].username = username

\* a /users handler in flight: the row as the handler loaded it and the row
\* with the handler's assignments
UserRequest(rid, op, pc, user_id, loaded, row) ==
    [op |-> op, pc |-> pc, rid |-> rid, tid |-> 0, user_id |-> user_id,
     loaded |-> loaded, row |-> row]

\* a handler that emits nothing starts on its way to db.session.commit()
CommitOnly(request) ==
    /\ nreq < MaxReq
    /\ CanStart
    /\ nreq' = nreq + 1
    /\ pending' = pending \cup {request}
    /\ UNCHANGED <<regVars, log, users, chat_messages, msgSeq, tables, idSeq, committed,
                   failed, clock, history, response, joined, left>>

\* POST /users, up to the add of the new row: the lookup of the username, the
\* 409 response, and the default avatar
handle_users_POST(name, username, avatar_in) ==
    /\ IF UsernameTaken(users, username)
       THEN /\ response' = [op |-> "user_create", status |-> 409]
            /\ UNCHANGED <<regVars, log, dbVars, pending, clock, history, joined, left>>
       ELSE /\ idSeq["users"] < MaxUserId
            /\ CommitOnly(UserRequest(nreq + 1, "user_create", "insert", 0, NoUser,
                                      [name |-> name, username |-> username,
                                       avatar |-> GetDefault(avatar_in, FirstUpper(name))]))

\* POST /users: the INSERT inside db.session.commit(). It raises before the
\* database draws a user_id (flush_fail), or the database draws the user_id
\* and then refuses a username that has been taken meanwhile (the column is
\* unique), or the row is inserted; a raise ends the request with status 500
handle_users_POST_insert(p, outcome) ==
    /\ p \in pending
    /\ p.op = "user_create" /\ p.pc = "insert"
    /\ outcome \in {"ok", "flush_fail"}
    /\ IF outcome = "flush_fail"
       THEN /\ idSeq' = idSeq
            /\ response' = [op |-> "user_create", status |-> 500]
            /\ pending' = pending \ {p}
       ELSE /\ idSeq' = [idSeq EXCEPT !["users"] = @ + 1]
            /\ IF UsernameTaken(users, p.row.username)
               THEN /\ response' = [op |-> "user_create", status |-> 500]
                    /\ pending' = pending \ {p}
               ELSE /\ pending' = (pending \ {p}) \cup
                           {[p EXCEPT !.pc = "commit", !.user_id = idSeq["users"] + 1]}
                    /\ response' = response
    /\ UNCHANGED <<regVars, log, users, chat_messages, msgSeq, tables, nreq, committed,
                   failed, clock, history, joined, left>>

\* POST /users: the commit
handle_users_POST_commit(p, outcome) ==
    /\ p \in pending
    /\ p.op = "user_create" /\ p.pc = "commit"
    /\ outcome \in {"ok", "commit_fail"}
    /\ outcome = "ok" => ~UsernameTaken(users, p.row.username)
    /\ IF outcome = "ok"
       THEN /\ users' = [user_id \in DOMAIN users \cup {p.user_id} |->
                            IF user_id = p.user_id THEN p.row ELSE users[user_id]]
            /\ pending' = (pending \ {p}) \cup {[p EXCEPT !.pc = "reload"]}
            /\ response' = response
       ELSE /\ users' = users
            /\ pending' = pending \ {p}
            /\ response' = [op |-> "user_create", status |-> 500]
    /\ UNCHANGED <<regVars, log, chat_messages, msgSeq, tables, idSeq, nreq, committed,
                   failed, clock, history, joined, left>>

\* POST /users: the response reads new_user.user_id, which the commit has
\* expired; a row that is gone, or a read that fails, ends in status 500
handle_users_POST_reload(p, outcome) ==
    /\ p \in pending
    /\ p.op = "user_create" /\ p.pc = "reload"
    /\ outcome \in {"ok", "read_fail"}
    /\ outcome = "ok" => p.user_id \in DOMAIN users
    /\ response' = [op |-> "user_create", status |-> IF outcome = "ok" THEN 201 ELSE 500]
    /\ pending' = pending \ {p}
    /\ UNCHANGED <<regVars, log, dbVars, clock, history, joined, left>>

\* PUT /users/<id>, up to the commit: get_or_404 and the assignments. Of the
\* fields it assigns, the name and the avatar are the ones the payloads read
\* and the username is the one POST /users looks up
handle_single_user_PUT(user_id, name_in, username_in, avatar_in) ==
    IF user_id \notin DOMAIN users
    THEN NotFound("user_update")
    ELSE LET user == users[user_id] IN
         CommitOnly(UserRequest(nreq + 1, "user_update", "commit", user_id, user,
                                [user EXCEPT !.name = GetDefault(name_in, @),
                                             !.username = GetDefault(username_in, @),
                                             !.avatar = GetDefault(avatar_in, @)]))

\* whether another stored user has the username p's UPDATE writes
UsernameClash(p) ==
    /\ p.row.username # p.loaded.username
    /\ \E other \in DOMAIN users \ {p.user_id} : users[other].username = p.row.username

\* PUT /users/<id>: the commit, which writes the columns whose value the
\* handler changed (an UPDATE that finds no row raises, and so does one that
\* writes a username another user has), and the response; no event is emitted
handle_single_user_PUT_commit(p, outcome) ==
    /\ p \in pending
    /\ p.op = "user_update"
    /\ outcome \in {"ok", "commit_fail"}
    /\ outcome = "ok" =>
          (IF p.row = p.loaded THEN TRUE ELSE p.user_id \in DOMAIN users /\ ~UsernameClash(p))
    /\ users' = IF outcome = "ok" /\ p.row # p.loaded
                THEN [users EXCEPT ![p.user_id] =
                        [c \in DOMAIN @ |-> IF p.row[c] # p.loaded[c] THEN p.row[c] ELSE @[c]]]
                ELSE users
    /\ response' = [op |-> "user_update", status |-> IF outcome = "ok" THEN 200 ELSE 500]
    /\ pending' = pending \ {p}
    /\ UNCHANGED <<regVars, log, chat_messages, msgSeq, tables, idSeq, nreq, committed,
                   failed, clock, history, joined, left>>

\* DELETE /users/<id>, up to the commit: get_or_404 and db.session.delete
handle_single_user_DELETE(user_id) ==
    IF user_id \notin DOMAIN users
    THEN NotFound("user_delete")
    ELSE CommitOnly(UserRequest(nreq + 1, "user_delete", "commit", user_id,
                                users[user_id], users[user_id]))

\* the column of each table that a relationship with a backref on Users is
\* built on (lines 78, 91, 105, 129, 172, 181); voting_results.user_id has
\* no relationship
UserColumn(t) ==
    CASE t = "announcements" -> "author_id"
      [] t \in {"repair_requests", "booking_requests", "payments", "security_visitors",
                "security_incidents"} -> "user_id"
      [] OTHER -> ""

\* the tables after the flush of db.session.delete(user): the rows of the
\* one-to-many relationships of the user get their foreign key set to NULL
ForgetUser(tbls, user_id) ==
    [t \in DOMAIN tbls |->
        IF UserColumn(t) = "" THEN tbls[t]
        ELSE {IF r[UserColumn(t)] = user_id THEN [r EXCEPT ![UserColumn(t)] = IdNone] ELSE r :
                 r \in tbls[t]}]

\* the same for the chat rows the user sent (line 159)
ForgetSender(messages, user_id) ==
    {IF m.sender_id = user_id THEN [m EXCEPT !.sender_id = IdNone] ELSE m : m \in messages}

\* DELETE /users/<id>: the commit and the response; no event is emitted. A
\* database that enforces the foreign key of voting_results refuses the
\* delete of a user who has voted, which is the failing outcome
handle_single_user_DELETE_commit(p, outcome) ==
    /\ p \in pending
    /\ p.op = "user_delete"
    /\ outcome \in {"ok", "commit_fail"}
    /\ IF outcome = "ok"
       THEN /\ users' = [user_id \in DOMAIN users \ {p.user_id} |-> users[user_id]]
            /\ tables' = ForgetUser(tables, p.user_id)
            /\ chat_messages' = ForgetSender(chat_messages, p.user_id)
       ELSE UNCHANGED <<users, tables, chat_messages>>
    /\ response' = [op |-> "user_delete", status |-> IF outcome = "ok" THEN 204 ELSE 500]
    /\ pending' = pending \ {p}
    /\ UNCHANGED <<regVars, log, msgSeq, idSeq, nreq, committed, failed, clock, history,
                   joined, left>>

\* the routes that emit an event after their commit
Publishing == {"announcement_create", "announcement_update", "announcement_delete",
               "repair_create", "repair_update", "booking_create", "booking_update",
               "bill_create", "bill_update", "bill_delete", "payment_create",
               "payment_approve", "calendar_create", "visitor_create", "incident_create"}

TableNames == {"announcements", "repair_requests", "booking_requests", "bills",
               "payments", "calendar_events", "security_visitors",
               "security_incidents", "voting_results"}

Ids(t) == {r.id : r \in tables[t]}

Row(t, id) == CHOOSE r \in tables[t] : r.id = id

\* no row: a relation that is None, a row that was not found
NoRow == [id |-> IdNone]

\* Model.query.get(id)
Find(t, id) == IF id \in Ids(t) THEN Row(t, id) ELSE NoRow

\* db.session.add(row), flushed
Insert(t, row) == [tables EXCEPT ![t] = @ \cup {row}]

\* attribute assignments on a loaded row, flushed: the UPDATE sets the
\* columns whose value differs from the loaded one and leaves the others as
\* the table holds them
Update(t, loaded, row) ==
    LET cur == Row(t, row.id)
        new == [c \in DOMAIN cur |-> IF row[c] # loaded[c] THEN row[c] ELSE cur[c]] IN
    [tables EXCEPT ![t] = (@ \ {cur}) \cup {new}]

\* db.session.delete(row), flushed: the rows of a one-to-many relationship of
\* the deleted row (Bills.payments, line 130) get their foreign key set to
\* NULL, then the row is deleted
Delete(t, id) ==
    [u \in TableNames |->
        IF u = t THEN {r \in tables[u] : r.id # id}
        ELSE IF u = "payments" /\ t = "bills"
        THEN {IF r.bill_id = id THEN [r EXCEPT !.bill_id = IdNone] ELSE r : r \in tables[u]}
        ELSE tables[u]]

\* a submitter lookup that yields no name when the relation is missing
UserName_Blank(u, user_id) ==
    IF user_id \in DOMAIN u THEN u[user_id].name ELSE ""

\* row.user.name if row.user else 'Unknown User'
UserName(u, user_id) ==
    IF user_id \in DOMAIN u THEN u[user_id].name ELSE "Unknown User"

\* announcement.author.name if announcement.author else 'Unknown Author'
AuthorName(u, author_id) ==
    IF author_id \in DOMAIN u THEN u[author_id].name ELSE "Unknown Author"

\* the event each publishing route emits
EventName(op) ==
    CASE op = "announcement_create" -> "new_announcement"
      [] op = "announcement_update" -> "announcement_updated"
      [] op = "announcement_delete" -> "announcement_deleted"
      [] op = "repair_create" -> "new_repair_request"
      [] op = "repair_update" -> "repair_status_updated"
      [] op = "booking_create" -> "new_booking_request"
      [] op = "booking_update" -> "booking_status_updated"
      [] op = "bill_create" -> "new_bill_created"
      [] op = "bill_update" -> "bill_updated"
      [] op = "bill_delete" -> "bill_deleted"
      [] op = "payment_create" -> "new_payment_receipt"
      [] op = "payment_approve" -> "payment_approved"
      [] op = "calendar_create" -> "new_calendar_event"
      [] op = "visitor_create" -> "new_visitor_registered"
      [] op = "incident_create" -> "new_incident_reported"

\* the dictionary each route builds for its event from the attributes of its
\* row and, where it names the submitter, from the users table
EventPayload(op, row, u) ==
    CASE op \in {"announcement_create", "announcement_update"} ->
            [announcement_id |-> row.id, author_id |-> row.author_id,
             author_name |-> AuthorName(u, row.author_id)]
      [] op = "announcement_delete" -> [announcement_id |-> row.id]
      [] op = "repair_create" ->
            [request_id |-> row.id, user_id |-> row.user_id,
             user_name |-> UserName(u, row.user_id), status |-> row.status]
      [] op = "repair_update" ->
            [request_id |-> row.id, user_id |-> row.user_id, status |-> row.status]
      [] op = "booking_create" ->
            [booking_id |-> row.id, user_id |-> row.user_id,
             user_name |-> UserName(u, row.user_id), status |-> row.status]
      [] op = "booking_update" ->
            [booking_id |-> row.id, user_id |-> row.user_id, status |-> row.status]
      [] op \in {"bill_create", "bill_update"} -> [bill_id |-> row.id, status |-> row.status]
      [] op = "bill_delete" -> [bill_id |-> row.id]
      [] op = "payment_create" ->
            [payment_id |-> row.id, user_id |-> row.user_id,
             user_name |-> UserName(u, row.user_id), status |-> row.status,
             bill_id |-> row.bill_id]
      [] op = "payment_approve" ->
            [payment_id |-> row.id, user_id |-> row.user_id, bill_id |-> row.bill_id,
             status |-> row.status]
      [] op = "calendar_create" -> [event_id |-> row.id]
      [] op = "visitor_create" ->
            [visitor_id |-> row.id, user_id |-> row.user_id,
             user_name |-> UserName(u, row.user_id)]
      [] op = "incident_create" ->
            [incident_id |-> row.id, user_id |-> row.user_id,
             user_name |-> UserName(u, row.user_id)]

\* the room= argument of each route's emit (None: broadcast=True)
EventRoom(op, row) ==
    CASE op \in {"repair_create", "booking_create", "payment_create", "visitor_create",
                 "incident_create"} -> "admins"
      [] op \in {"repair_update", "booking_update"} -> UserRoom(row.user_id)
      [] OTHER -> PyNone

\* the status code of each route's success response
SuccessStatus(op) ==
    CASE op \in {"announcement_create", "repair_create", "booking_create", "bill_create",
                 "payment_create", "calendar_create", "visitor_create",
                 "incident_create"} -> 201
      [] op \in {"announcement_delete", "bill_delete"} -> 204
      [] OTHER -> 200

\* a publishing HTTP handler in flight. kind: what its commit flushes (an
\* insert, an update, a delete, or the two updates of an approval); loaded:
\* the row as the handler read it; row: the row with the handler's
\* assignments; bill: the bill an approval loaded; payload and room: the
\* arguments of its emit once they are evaluated
RestRequest(rid, op, pc, t, kind, loaded, row) ==
    [op |-> op, pc |-> pc, rid |-> rid, tid |-> 0, t |-> t, kind |-> kind, loaded |-> loaded,
     row |-> row, bill |-> NoRow, payload |-> NoRow, room |-> PyNone]

\* the tail every publishing HTTP handler shares, begun: the handler has built
\* or loaded its row and goes on to db.session.commit(), to the reads that
\* build the payload, and to socketio.emit(...)
CommitThenEmit(op, pc, t, kind, loaded, row) ==
    /\ nreq < MaxReq
    /\ CanStartEmitter
    /\ nreq' = nreq + 1
    /\ pending' = pending \cup {RestRequest(nreq + 1, op, pc, t, kind, loaded, row)}
    /\ UNCHANGED <<regVars, log, users, chat_messages, msgSeq, tables, idSeq, committed,
                   failed, clock, history, response, joined, left>>

\* the flush of a new row, the first thing db.session.commit() does: the
\* INSERT draws the primary key from the sequence of the table, and a value
\* drawn stays drawn when the transaction fails later; or the INSERT raises
\* before a key is drawn (flush_fail) and the request ends with status 500
SessionFlush(p, outcome) ==
    /\ p \in pending
    /\ p.op \in Publishing \cup {"vote"}
    /\ p.pc = "insert"
    /\ outcome \in {"ok", "flush_fail"}
    /\ IF outcome = "ok"
       THEN /\ idSeq' = [idSeq EXCEPT ![p.t] = @ + 1]
            /\ pending' = (pending \ {p}) \cup
                   {[p EXCEPT !.pc = "commit", !.row = [p.row EXCEPT !.id = idSeq[p.t] + 1]]}
            /\ UNCHANGED <<failed, response>>
       ELSE /\ idSeq' = idSeq
            /\ pending' = pending \ {p}
            /\ failed' = failed \cup {[rid |-> p.rid, op |-> p.op]}
            /\ response' = [op |-> p.op, status |-> 500]
    /\ UNCHANGED <<regVars, log, users, chat_messages, msgSeq, tables, nreq, committed,
                   clock, history, joined, left>>

\* whether the UPDATE statements of p's flush find the rows they are for
\* (an UPDATE that matches no row raises StaleDataError; a DELETE that matches
\* none only warns)
RowsThere(p) ==
    CASE p.kind = "update" -> IF p.row = p.loaded THEN TRUE ELSE p.row.id \in Ids(p.t)
      [] p.kind = "approve" ->
            /\ IF p.row.status = p.loaded.status THEN TRUE ELSE p.row.id \in Ids("payments")
            /\ IF p.bill = NoRow THEN TRUE
               ELSE IF p.bill.status = p.row.status THEN TRUE
               ELSE p.bill.id \in Ids("bills")
      [] OTHER -> TRUE

\* the tables after p's flush
Flushed(p) ==
    CASE p.kind = "insert" -> Insert(p.t, p.row)
      [] p.kind = "update" ->
            IF p.row = p.loaded THEN tables ELSE Update(p.t, p.loaded, p.row)
      [] p.kind = "delete" -> Delete(p.t, p.row.id)
      [] p.kind = "approve" ->
            [u \in TableNames |->
                IF u = "payments" /\ p.row.status # p.loaded.status
                THEN {IF r.id = p.row.id THEN [r EXCEPT !.status = p.row.status] ELSE r :
                         r \in tables[u]}
                ELSE IF u = "bills" /\ p.bill # NoRow /\ p.bill.status # p.row.status
                THEN {IF r.id = p.bill.id THEN [r EXCEPT !.status = p.row.status] ELSE r :
                         r \in tables[u]}
                ELSE tables[u]]

\* whether the handler reads its row back from the database for the payload
\* (the delete routes build it from the URL and from what they loaded)
ReadsBack(p) == p.kind # "delete"

\* a commit whose failure does not stop the handler
SessionCommit_EmitsAnyway(p, outcome) ==
    /\ p \in pending
    /\ p.op \in Publishing
    /\ p.pc = "commit"
    /\ outcome \in {"ok", "commit_fail"}
    /\ outcome = "ok" => RowsThere(p)
    /\ LET req == [rid |-> p.rid, op |-> p.op] IN
       IF outcome = "ok"
       THEN /\ tables' = Flushed(p)
            /\ committed' = committed \cup {req}
            /\ pending' = (pending \ {p}) \cup
                   {IF ReadsBack(p) THEN [p EXCEPT !.pc = "reload"]
                    ELSE [p EXCEPT !.pc = "emit",
                                   !.payload = EventPayload(p.op, p.row, users),
                                   !.room = EventRoom(p.op, p.row)]}
            /\ UNCHANGED <<failed, response>>
       ELSE /\ failed' = failed \cup {req}
            /\ pending' = (pending \ {p}) \cup
                   {[p EXCEPT !.pc = "emit",
                              !.payload = EventPayload(p.op, p.row, users),
                              !.room = EventRoom(p.op, p.row)]}
            /\ UNCHANGED <<tables, committed, response>>
    /\ UNCHANGED <<regVars, log, users, chat_messages, msgSeq, idSeq, nreq, clock, history,
                   joined, left>>

\* db.session.commit(): the flushed statements become visible together, or
\* the commit raises and the request ends with status 500
SessionCommit(p, outcome) ==
    /\ p \in pending
    /\ p.op \in Publishing
    /\ p.pc = "commit"
    /\ outcome \in {"ok", "commit_fail"}
    /\ outcome = "ok" => RowsThere(p)
    /\ LET req == [rid |-> p.rid, op |-> p.op] IN
       IF outcome = "ok"
       THEN /\ tables' = Flushed(p)
            /\ committed' = committed \cup {req}
            /\ pending' = (pending \ {p}) \cup
                   {IF ReadsBack(p) THEN [p EXCEPT !.pc = "reload"]
                    ELSE [p EXCEPT !.pc = "emit",
                                   !.payload = EventPayload(p.op, p.row, users),
                                   !.room = EventRoom(p.op, p.row)]}
            /\ UNCHANGED <<failed, response>>
       ELSE /\ failed' = failed \cup {req}
            /\ pending' = pending \ {p}
            /\ response' = [op |-> p.op, status |-> 500]
            /\ UNCHANGED <<tables, committed>>
    /\ UNCHANGED <<regVars, log, users, chat_messages, msgSeq, idSeq, nreq, clock, history,
                   joined, left>>

\* the routes whose payload names the user of the row (row.user.name,
\* announcement.author.name)
NamesUser == {"announcement_create", "announcement_update", "repair_create",
              "booking_create", "payment_create", "visitor_create", "incident_create"}

\* the user such a row points to
Submitter(op, row) ==
    IF op \in {"announcement_create", "announcement_update"} THEN row.author_id
    ELSE row.user_id

\* the first attribute access after the commit: the session has expired the
\* row, so it is read back as the table holds it now. A route that names a
\* user goes on to load it; the others build the payload and the room from
\* the row. A row that is gone, or a read after the commit that fails, ends
\* the request with status 500 and without an event
SessionRefresh(p, outcome) ==
    /\ p \in pending
    /\ p.op \in Publishing
    /\ p.pc = "reload"
    /\ outcome \in {"ok", "read_fail"}
    /\ outcome = "ok" => p.row.id \in Ids(p.t)
    /\ IF outcome = "ok"
       THEN /\ LET row == Row(p.t, p.row.id) IN
               pending' = (pending \ {p}) \cup
                   {IF p.op \in NamesUser /\ Submitter(p.op, row) # IdNone
                    THEN [p EXCEPT !.pc = "user", !.row = row]
                    ELSE [p EXCEPT !.pc = "emit", !.row = row,
                                   !.payload = EventPayload(p.op, row, users),
                                   !.room = EventRoom(p.op, row)]}
            /\ response' = response
       ELSE /\ pending' = pending \ {p}
            /\ response' = [op |-> p.op, status |-> 500]
    /\ UNCHANGED <<regVars, log, dbVars, clock, history, joined, left>>

\* row.user / announcement.author: the lazy load of the user the row names,
\* after which the payload is built
SessionLoadUser(p) ==
    /\ p \in pending
    /\ p.op \in NamesUser
    /\ p.pc = "user"
    /\ pending' = (pending \ {p}) \cup
           {[p EXCEPT !.pc = "emit",
                      !.payload = EventPayload(p.op, p.row, users),
                      !.room = EventRoom(p.op, p.row)]}
    /\ UNCHANGED <<regVars, log, dbVars, clock, history, response, joined, left>>

\* an emit that answers 500 when nobody is in the room
SocketioEmit_NeedsListener(p) ==
    /\ p \in pending
    /\ p.op \in Publishing
    /\ p.pc = "emit"
    /\ log' = Emit(log, EventName(p.op), p.payload, p.room, HttpCtx(p.rid), rooms, connected)
    /\ response' = [op |-> p.op,
                    status |-> IF Participants(rooms, connected, p.room) = {}
                               THEN 500 ELSE SuccessStatus(p.op)]
    /\ pending' = pending \ {p}
    /\ UNCHANGED <<regVars, dbVars, clock, history, joined, left>>

\* socketio.emit(event, payload, room=... / broadcast=True) and the success
\* response that follows it
SocketioEmit(p) ==
    /\ p \in pending
    /\ p.op \in Publishing
    /\ p.pc = "emit"
    /\ log' = Emit(log, EventName(p.op), p.payload, p.room, HttpCtx(p.rid), rooms, connected)
    /\ response' = [op |-> p.op, status |-> SuccessStatus(p.op)]
    /\ pending' = pending \ {p}
    /\ UNCHANGED <<regVars, dbVars, clock, history, joined, left>>

\* POST /announcements
manage_announcements_POST(author_in) ==
    CommitThenEmit("announcement_create", "insert", "announcements", "insert", NoRow,
                   [id |-> 0, author_id |-> GetId(author_in)])

\* PUT /announcements/<id>
handle_single_announcement_PUT(announcement_id, author_in) ==
    IF announcement_id \notin Ids("announcements")
    THEN NotFound("announcement_update")
    ELSE LET announcement == Row("announcements", announcement_id) IN
         CommitThenEmit("announcement_update", "commit", "announcements", "update",
                        announcement,
                        [announcement EXCEPT !.author_id = GetIdDefault(author_in, @)])

\* DELETE /announcements/<id>
handle_single_announcement_DELETE(announcement_id) ==
    IF announcement_id \notin Ids("announcements")
    THEN NotFound("announcement_delete")
    ELSE LET announcement == Row("announcements", announcement_id) IN
         CommitThenEmit("announcement_delete", "commit", "announcements", "delete",
                        announcement, announcement)

\* POST /repair-requests
manage_repair_requests_POST(user_id) ==
    CommitThenEmit("repair_create", "insert", "repair_requests", "insert", NoRow,
                   [id |-> 0, user_id |-> user_id, status |-> "pending"])

\* PUT /repair-requests/<id>
handle_single_repair_request_PUT(request_id, status_in) ==
    IF request_id \notin Ids("repair_requests")
    THEN NotFound("repair_update")
    ELSE LET req == Row("repair_requests", request_id) IN
         CommitThenEmit("repair_update", "commit", "repair_requests", "update", req,
                        [req EXCEPT !.status = GetDefault(status_in, @)])

\* a DELETE handler of a route that emits nothing, between its
\* db.session.delete(row) and its commit
DeleteRequest(rid, op, t, row) ==
    [op |-> op, pc |-> "commit", rid |-> rid, tid |-> 0, t |-> t, row |-> row]

\* the commit of such a handler and its response (a DELETE that finds no row
\* only warns)
SessionCommit_Delete(p, outcome) ==
    /\ p \in pending
    /\ p.op \in {"repair_delete", "booking_delete"}
    /\ outcome \in {"ok", "commit_fail"}
    /\ tables' = IF outcome = "ok" THEN Delete(p.t, p.row.id) ELSE tables
    /\ response' = [op |-> p.op, status |-> IF outcome = "ok" THEN 204 ELSE 500]
    /\ pending' = pending \ {p}
    /\ UNCHANGED <<regVars, log, users, chat_messages, msgSeq, idSeq, nreq, committed,
                   failed, clock, history, joined, left>>

\* DELETE /repair-requests/<id>, up to the commit
handle_single_repair_request_DELETE(request_id) ==
    IF request_id \notin Ids("repair_requests")
    THEN NotFound("repair_delete")
    ELSE CommitOnly(DeleteRequest(nreq + 1, "repair_delete", "repair_requests",
                                  Row("repair_requests", request_id)))

\* POST /booking-requests
manage_booking_requests_POST(user_id) ==
    CommitThenEmit("booking_create", "insert", "booking_requests", "insert", NoRow,
                   [id |-> 0, user_id |-> user_id, status |-> "pending"])

\* PUT /booking-requests/<id>
handle_single_booking_request_PUT(booking_id, status_in) ==
    IF booking_id \notin Ids("booking_requests")
    THEN NotFound("booking_update")
    ELSE LET booking == Row("booking_requests", booking_id) IN
         CommitThenEmit("booking_update", "commit", "booking_requests", "update", booking,
                        [booking EXCEPT !.status = GetDefault(status_in, @)])

\* DELETE /booking-requests/<id>, up to the commit
handle_single_booking_request_DELETE(booking_id) ==
    IF booking_id \notin Ids("booking_requests")
    THEN NotFound("booking_delete")
    ELSE CommitOnly(DeleteRequest(nreq + 1, "booking_delete", "booking_requests",
                                  Row("booking_requests", booking_id)))

\* POST /bills
manage_bills_POST ==
    CommitThenEmit("bill_create", "insert", "bills", "insert", NoRow,
                   [id |-> 0, status |-> "unpaid"])

\* PUT /bills/<id>
handle_single_bill_PUT(bill_id, status_in) ==
    IF bill_id \notin Ids("bills")
    THEN NotFound("bill_update")
    ELSE LET bill == Row("bills", bill_id) IN
         CommitThenEmit("bill_update", "commit", "bills", "update", bill,
                        [bill EXCEPT !.status = GetDefault(status_in, @)])

\* DELETE /bills/<id>
handle_single_bill_DELETE(bill_id) ==
    IF bill_id \notin Ids("bills")
    THEN NotFound("bill_delete")
    ELSE LET bill == Row("bills", bill_id) IN
         CommitThenEmit("bill_delete", "commit", "bills", "delete", bill, bill)

\* POST /payments
manage_payments_POST(user_id, bill_in, status_in) ==
    CommitThenEmit("payment_create", "insert", "payments", "insert", NoRow,
                   [id |-> 0, user_id |-> user_id, bill_id |-> GetId(bill_in),
                    status |-> GetDefault(status_in, "pending")])

\* an approval that takes any status the body names
approve_payment_NoValidation(payment_id, status_in) ==
    IF payment_id \notin Ids("payments")
    THEN NotFound("payment_approve")
    ELSE LET payment == Row("payments", payment_id)
             new_status == GetDefault(status_in, "paid") IN
         CommitThenEmit("payment_approve",
                        IF payment.bill_id = IdNone THEN "commit" ELSE "bill",
                        "payments", "approve", payment,
                        [payment EXCEPT !.status = new_status])

\* PUT /payments/approve/<id>, up to the assignment of payment.status:
\* get_or_404, the validation and its 400 response
approve_payment(payment_id, status_in) ==
    IF payment_id \notin Ids("payments")
    THEN NotFound("payment_approve")
    ELSE LET payment == Row("payments", payment_id)
             new_status == GetDefault(status_in, "paid") IN
         IF new_status \notin {"paid", "rejected"}
         THEN /\ response' = [op |-> "payment_approve", status |-> 400]
              /\ UNCHANGED <<regVars, log, dbVars, pending, clock, history, joined, left>>
         ELSE CommitThenEmit("payment_approve",
                             IF payment.bill_id = IdNone THEN "commit" ELSE "bill",
                             "payments", "approve", payment,
                             [payment EXCEPT !.status = new_status])

\* approve_payment: `if payment.bill` loads the bill the payment names
approve_payment_bill(p) ==
    /\ p \in pending
    /\ p.op = "payment_approve"
    /\ p.pc = "bill"
    /\ pending' = (pending \ {p}) \cup
           {[p EXCEPT !.pc = "commit", !.bill = Find("bills", p.row.bill_id)]}
    /\ UNCHANGED <<regVars, log, dbVars, clock, history, response, joined, left>>

\* POST /calendar-events
manage_calendar_events_POST ==
    CommitThenEmit("calendar_create", "insert", "calendar_events", "insert", NoRow,
                   [id |-> 0])

\* POST /security-visitors
manage_security_visitors_POST(user_id) ==
    CommitThenEmit("visitor_create", "insert", "security_visitors", "insert", NoRow,
                   [id |-> 0, user_id |-> user_id])

\* POST /security-incidents
manage_security_incidents_POST(user_id) ==
    CommitThenEmit("incident_create", "insert", "security_incidents", "insert", NoRow,
                   [id |-> 0, user_id |-> user_id])

\* a vote lookup that never finds a row
ExistingVote_Never(tbls, poll_id, user_id) == FALSE

\* VotingResults.query.filter_by(poll_id=..., user_id=...).first()
ExistingVote(tbls, poll_id, user_id) ==
    \E r \in tbls["voting_results"] : r.poll_id = poll_id /\ r.user_id = user_id

\* a POST /voting-results request whose lookup found no row
VoteRequest(rid, poll_id, option_id, user_id) ==
    [op |-> "vote", pc |-> "insert", rid |-> rid, tid |-> 0, t |-> "voting_results",
     row |-> [id |-> 0, poll_id |-> poll_id, option_id |-> option_id, user_id |-> user_id]]

\* POST /voting-results, up to the add of the new row: the lookup of an
\* existing vote and the 409 response
manage_voting_results_POST(poll_id, option_id, user_id) ==
    /\ IF ExistingVote(tables, poll_id, user_id)
       THEN /\ response' = [op |-> "vote", status |-> 409]
            /\ UNCHANGED <<nreq, pending>>
       ELSE /\ nreq < MaxReq
            /\ CanStart
            /\ nreq' = nreq + 1
            /\ pending' = pending \cup {VoteRequest(nreq + 1, poll_id, option_id, user_id)}
            /\ response' = response
    /\ UNCHANGED <<regVars, log, users, chat_messages, msgSeq, tables, idSeq, committed,
                   failed, clock, history, joined, left>>

\* POST /voting-results: db.session.commit(). The row becomes visible to the
\* other requests, or the commit raises and the request ends with status 500
manage_voting_results_commit(p, outcome) ==
    /\ p \in pending
    /\ p.op = "vote" /\ p.pc = "commit"
    /\ outcome \in {"ok", "commit_fail"}
    /\ LET req == [rid |-> p.rid, op |-> "vote"] IN
       IF outcome = "ok"
       THEN /\ tables' = Insert("voting_results", p.row)
            /\ committed' = committed \cup {req}
            /\ pending' = (pending \ {p}) \cup {[p EXCEPT !.pc = "reload"]}
            /\ UNCHANGED <<failed, response>>
       ELSE /\ failed' = failed \cup {req}
            /\ pending' = pending \ {p}
            /\ response' = [op |-> "vote", status |-> 500]
            /\ UNCHANGED <<tables, committed>>
    /\ UNCHANGED <<regVars, log, users, chat_messages, msgSeq, idSeq, nreq, clock, history,
                   joined, left>>

\* POST /voting-results: the response reads new_result.result_id, which the
\* commit has expired, so the row is read back; a read that fails ends in
\* status 500 with the vote stored. The handler emits nothing
manage_voting_results_reload(p, outcome) ==
    /\ p \in pending
    /\ p.op = "vote" /\ p.pc = "reload"
    /\ outcome \in {"ok", "read_fail"}
    /\ outcome = "ok" => p.row.id \in Ids("voting_results")
    /\ response' = [op |-> "vote", status |-> IF outcome = "ok" THEN 201 ELSE 500]
    /\ pending' = pending \ {p}
    /\ UNCHANGED <<regVars, log, dbVars, clock, history, joined, left>>

\* ------------------------------------------------------- specification
\* run(): the two users the server creates on first start
SeedUsers ==
    (1 :> [name |-> "Admin User", username |-> "admin", avatar |-> "A"]) @@
    (2 :> [name |-> "Resident User", username |-> "resident", avatar |-> "R"])

Init ==
    /\ connected = {}
    /\ earlier = [sid \in AllSids |-> {}]
    /\ nextSid = 0
    /\ rooms = [room \in RoomNames |-> {}]
    /\ log = <<>>
    /\ users = SeedUsers
    /\ chat_messages = {}
    /\ msgSeq = 0
    /\ tables = [t \in TableNames |-> {}]
    /\ idSeq = [t \in TableNames \cup {"users"} |-> IF t = "users" THEN 2 ELSE 0]
    /\ nreq = 0
    /\ committed = {}
    /\ failed = {}
    /\ pending = {}
    /\ clock = 0
    /\ history = <<>>
    /\ response = [op |-> "", status |-> 0]
    /\ joined = {}
    /\ left = {}

StatusInputs == {Missing, "approved"}

\* the status values a PUT /payments/approve/<id> body is given here
ApproveInputs == {Missing, "paid", "rejected", "pending"}

\* the connection lifecycle and the membership requests
SocketNext ==
    \/ handle_connect
    \/ \E sid \in connected : handle_disconnect(sid)
    \/ \E sid \in connected, room_in \in RoomInputs : handle_join_chat_room(sid, room_in)
    \/ \E sid \in connected, room_in \in RoomInputs : handle_leave_chat_room(sid, room_in)
    \/ \E sid \in connected, user_id \in {IdMissing, 1} : handle_join_user_room(sid, user_id)
    \/ \E p \in pending : handle_join_chat_room_emit(p)
    \/ \E p \in pending : handle_leave_chat_room_emit(p)
    \/ \E p \in pending : handle_join_user_room_emit(p)

\* the steps of the send_message handlers in flight
SendSteps(outcomes) ==
    \E p \in pending :
        \/ \E outcome \in outcomes : handle_send_message_insert(p, outcome)
        \/ \E outcome \in outcomes : handle_send_message_commit(p, outcome)
        \/ \E outcome \in outcomes : handle_send_message_lookup(p, outcome)
        \/ handle_send_message_reload(p)
        \/ handle_send_message_emit(p)

\* the chat relay. Room names sent with send_message are absent, null, a
\* fixed name or a sid; an empty name is left out: what an emit to room ''
\* reaches differs between python-socketio releases
SendNext(room_ins, outcomes) ==
    \/ \E sid \in connected, sender_in \in SenderInputs, content_in \in ContentInputs,
          room_in \in room_ins :
            handle_send_message(sid, sender_in, content_in, room_in)
    \/ SendSteps(outcomes)

\* GET /chat-messages
HistoryNext ==
    \/ get_chat_messages
    \/ \E p \in pending : get_chat_messages_sender(p)

\* an id of table t for a URL: one that is stored, or one that is not
IdInputs(t) == Ids(t) \cup {idSeq[t] + 1}

\* the same for /users/<id>
UserIdUrls == DOMAIN users \cup {idSeq["users"] + 1}

NameInputs == {Missing, "Zed"}

UsernameInputs == {Missing, "zed"}

AvatarInputs == {Missing, PyNone}

\* the steps of the /users handlers in flight
UserSteps(outcomes) ==
    \E p \in pending :
        \/ \E outcome \in outcomes : handle_users_POST_insert(p, outcome)
        \/ \E outcome \in outcomes : handle_users_POST_commit(p, outcome)
        \/ \E outcome \in outcomes : handle_users_POST_reload(p, outcome)
        \/ \E outcome \in outcomes : handle_single_user_PUT_commit(p, outcome)
        \/ \E outcome \in outcomes : handle_single_user_DELETE_commit(p, outcome)

\* POST /users, PUT and DELETE /users/<id>
UsersNext(outcomes) ==
    \/ \E username \in {"admin", "zed"}, avatar_in \in AvatarInputs :
          handle_users_POST("Zed", username, avatar_in)
    \/ \E user_id \in UserIdUrls, name_in \in NameInputs, username_in \in UsernameInputs,
          avatar_in \in AvatarInputs :
            handle_single_user_PUT(user_id, name_in, username_in, avatar_in)
    \/ \E user_id \in UserIdUrls : handle_single_user_DELETE(user_id)
    \/ UserSteps(outcomes)

\* the steps of the publishing HTTP handlers in flight
RestSteps(outcomes) ==
    \E p \in pending :
        \/ \E outcome \in outcomes : SessionFlush(p, outcome)
        \/ \E outcome \in outcomes : SessionCommit(p, outcome)
        \/ \E outcome \in outcomes : SessionRefresh(p, outcome)
        \/ SessionLoadUser(p)
        \/ SocketioEmit(p)

\* the HTTP handlers that publish to a room
RoomRestNext ==
    \/ manage_repair_requests_POST(1)
    \/ \E id \in IdInputs("repair_requests"), status_in \in StatusInputs :
          handle_single_repair_request_PUT(id, status_in)

\* the ids stored in each table
StoredIds == [t \in TableNames |-> Ids(t)]

\* the ids a URL may name, for each table
UrlIds == [t \in TableNames |-> IdInputs(t)]

\* every HTTP handler that publishes an event, the approval aside, with the
\* ids of the URLs taken from ids
RestNext(ids) ==
    \/ \E author_in \in {IdMissing, 1} : manage_announcements_POST(author_in)
    \/ \E id \in ids["announcements"], author_in \in {IdMissing, 3} :
          handle_single_announcement_PUT(id, author_in)
    \/ \E id \in ids["announcements"] : handle_single_announcement_DELETE(id)
    \/ \E user_id \in UserIdInputs : manage_repair_requests_POST(user_id)
    \/ \E id \in ids["repair_requests"], status_in \in StatusInputs :
          handle_single_repair_request_PUT(id, status_in)
    \/ \E user_id \in UserIdInputs : manage_booking_requests_POST(user_id)
    \/ \E id \in ids["booking_requests"], status_in \in StatusInputs :
          handle_single_booking_request_PUT(id, status_in)
    \/ manage_bills_POST
    \/ \E id \in ids["bills"], status_in \in {Missing, "paid"} :
          handle_single_bill_PUT(id, status_in)
    \/ \E id \in ids["bills"] : handle_single_bill_DELETE(id)
    \/ \E user_id \in UserIdInputs, bill_in \in {IdMissing} \cup Ids("bills") :
          manage_payments_POST(user_id, bill_in, Missing)
    \/ manage_calendar_events_POST
    \/ \E user_id \in UserIdInputs : manage_security_visitors_POST(user_id)
    \/ \E user_id \in UserIdInputs : manage_security_incidents_POST(user_id)

\* PUT /payments/approve/<id>
ApproveNext ==
    \/ \E id \in IdInputs("payments"), status_in \in ApproveInputs :
          approve_payment(id, status_in)
    \/ \E p \in pending : approve_payment_bill(p)

\* DELETE /repair-requests/<id> and DELETE /booking-requests/<id>
DeleteNext(outcomes) ==
    \/ \E id \in IdInputs("repair_requests") : handle_single_repair_request_DELETE(id)
    \/ \E id \in IdInputs("booking_requests") : handle_single_booking_request_DELETE(id)
    \/ \E p \in pending, outcome \in outcomes : SessionCommit_Delete(p, outcome)

PollInputs == {1, 2}

OptionInputs == {1, 2}

\* POST /voting-results
VoteNext(outcomes) ==
    \/ \E poll_id \in PollInputs, option_id \in OptionInputs, user_id \in DOMAIN users :
            manage_voting_results_POST(poll_id, option_id, user_id)
    \/ \E p \in pending, outcome \in outcomes : p.op = "vote" /\ SessionFlush(p, outcome)
    \/ \E p \in pending, outcome \in outcomes : manage_voting_results_commit(p, outcome)
    \/ \E p \in pending, outcome \in outcomes : manage_voting_results_reload(p, outcome)

\* Spec: every handler of the model, with every input listed above
Next ==
    \/ SocketNext
    \/ SendNext((RoomInputs \ {""}) \cup {PyNone, "general_chat"}, SendOutcomes)
    \/ Tick
    \/ HistoryNext
    \/ UsersNext(SendOutcomes)
    \/ RestNext(UrlIds)
    \/ ApproveNext
    \/ RestSteps(SendOutcomes)
    \/ DeleteNext(Outcomes)
    \/ VoteNext(SendOutcomes)

Spec == Init /\ [][Next]_vars

\* SpecRooms: connections, rooms and the chat relay to the admins room and to
\* the rooms named after the sids
RoomsNext ==
    \/ SocketNext
    \/ /\ nreq < MaxRest
       /\ \E sid \in connected, sender_in \in SenderInputs, content_in \in ContentInputs,
             room_in \in {"admins"} \cup Allocated :
               handle_send_message(sid, sender_in, content_in, room_in)
    \/ SendSteps({"ok", "commit_fail"})

SpecRooms == Init /\ [][RoomsNext]_vars

\* SpecDelivery: connections that come and go and join the admins room while
\* events are published to that room (a chat message, a repair request) and
\* to everyone (a bill)
DeliveryNext ==
    \/ handle_connect
    \/ \E sid \in connected : handle_disconnect(sid)
    \/ \E sid \in connected : handle_join_chat_room(sid, "admins")
    \/ \E sid \in connected : handle_leave_chat_room(sid, "admins")
    \/ \E p \in pending : handle_join_chat_room_emit(p)
    \/ \E p \in pending : handle_leave_chat_room_emit(p)
    \/ /\ nreq < MaxRest
       /\ \/ \E sid \in connected : handle_send_message(sid, 1, "hi", "admins")
          \/ manage_repair_requests_POST(1)
          \/ manage_bills_POST
    \/ SendSteps({"ok", "commit_fail"})
    \/ RestSteps({"ok", "commit_fail"})

SpecDelivery == Init /\ [][DeliveryNext]_vars

\* SpecBridge: every publishing HTTP handler, on rows that are stored, with
\* connections that listen and a database that may fail at the INSERT, at the
\* commit and at a read after it. An approval may be the third request, after
\* the bill and the payment it is about
BridgeNext ==
    \/ handle_connect
    \/ \E sid \in connected : handle_join_chat_room(sid, "admins")
    \/ \E p \in pending : handle_join_chat_room_emit(p)
    \/ nreq < MaxRest /\ \E sid \in connected : handle_send_message(sid, 1, "hi", Missing)
    \/ SendSteps(SendOutcomes)
    \/ nreq < MaxRest /\ RestNext(StoredIds)
    \/ \E id \in Ids("payments"), status_in \in ApproveInputs : approve_payment(id, status_in)
    \/ \E p \in pending : approve_payment_bill(p)
    \/ RestSteps(SendOutcomes)

SpecBridge == Init /\ [][BridgeNext]_vars

\* SpecRelay: the chat relay with a room name that is absent or null, and
\* connections that join the default room
RelayNext ==
    \/ handle_connect
    \/ \E sid \in connected : handle_join_chat_room(sid, "general_chat")
    \/ \E p \in pending : handle_join_chat_room_emit(p)
    \/ SendNext({Missing, PyNone}, Outcomes)

SpecRelay == Init /\ [][RelayNext]_vars

\* SpecHistory: concurrent sends, the clock and the history read
HistoryReadNext ==
    \/ connected = {} /\ handle_connect
    \/ /\ nreq < MaxRest
       /\ \E sid \in connected, sender_in \in SenderInputs, content_in \in ContentInputs :
             handle_send_message(sid, sender_in, content_in, Missing)
    \/ SendSteps(SendOutcomes)
    \/ Tick
    \/ HistoryNext

SpecHistory == Init /\ [][HistoryReadNext]_vars

\* the steps of the publishing HTTP handlers in flight with a database that
\* works: a statement raises only where the handler's own row makes it raise,
\* the UPDATE of a row that is gone at the commit (commit_fail) and the read
\* back of a row that is gone after it (read_fail)
RestStepsWorking ==
    \E p \in pending :
        \/ SessionFlush(p, "ok")
        \/ /\ p.op \in Publishing /\ p.pc = "commit"
           /\ SessionCommit(p, IF RowsThere(p) THEN "ok" ELSE "commit_fail")
        \/ /\ p.op \in Publishing /\ p.pc = "reload"
           /\ SessionRefresh(p, IF p.row.id \in Ids(p.t) THEN "ok" ELSE "read_fail")
        \/ SessionLoadUser(p)
        \/ SocketioEmit(p)

\* SpecPersonal: the personal rooms, the status updates addressed to them and
\* the deletion of a request, which may overlap a POST or a PUT of the same
\* row, with a database that works
PersonalNext ==
    \/ handle_connect
    \/ \E sid \in connected : handle_disconnect(sid)
    \/ \E sid \in connected, user_id \in {IdMissing} \cup UserIdInputs :
          handle_join_user_room(sid, user_id)
    \/ \E sid \in connected : handle_leave_chat_room(sid, UserRoom(1))
    \/ \E p \in pending : handle_join_user_room_emit(p)
    \/ \E p \in pending : handle_leave_chat_room_emit(p)
    \/ /\ nreq < MaxRest
       /\ \/ manage_repair_requests_POST(1)
          \/ \E id \in IdInputs("repair_requests") :
                handle_single_repair_request_PUT(id, "approved")
          \/ manage_booking_requests_POST(1)
          \/ \E id \in Ids("booking_requests") :
                handle_single_booking_request_PUT(id, "approved")
    \/ \E id \in IdInputs("repair_requests") : handle_single_repair_request_DELETE(id)
    \/ \E id \in Ids("booking_requests") : handle_single_booking_request_DELETE(id)
    \/ \E p \in pending : SessionCommit_Delete(p, "ok")
    \/ RestStepsWorking

SpecPersonal == Init /\ [][PersonalNext]_vars

\* SpecChat: chat sends by the stored users, the history read, and the
\* /users requests: a user is created, user 1 is renamed or given another
\* avatar, user 2 is deleted
ChatNext ==
    \/ connected = {} /\ handle_connect
    \/ \E username \in {"admin", "zed"} : handle_users_POST("Zed", username, Missing)
    \/ \E user_id \in {1, idSeq["users"] + 1} :
          \/ handle_single_user_PUT(user_id, "Zed", Missing, Missing)
          \/ handle_single_user_PUT(user_id, Missing, Missing, PyNone)
    \/ \E user_id \in {2, idSeq["users"] + 1} : handle_single_user_DELETE(user_id)
    \/ UserSteps(SendOutcomes)
    \/ /\ nreq < MaxRest
       /\ \E sid \in connected, sender_in \in DOMAIN users :
            handle_send_message(sid, sender_in, "hi", Missing)
    \/ SendSteps(Outcomes)
    \/ HistoryNext

SpecChat == Init /\ [][ChatNext]_vars

\* SpecVoting: POST /voting-results requests, one after the other or overlapping
VotingNext ==
    \/ handle_connect
    \/ VoteNext(SendOutcomes)

SpecVoting == Init /\ [][VotingNext]_vars

\* SpecPayments: bills, payment receipts linked to them or to none, approvals,
\* and the deletion of a bill
PaymentsNext ==
    \/ handle_connect
    \/ manage_bills_POST
    \/ \E id \in IdInputs("bills") : handle_single_bill_DELETE(id)
    \/ \E bill_in \in {IdMissing} \cup Ids("bills") : manage_payments_POST(1, bill_in, Missing)
    \/ ApproveNext
    \/ RestSteps(SendOutcomes)

SpecPayments == Init /\ [][PaymentsNext]_vars

\* SpecSequential: the chat relay and the room-addressed HTTP events with the
\* requests handled one after the other: a handler starts when no other is in
\* flight
SequentialNext ==
    \/ handle_connect
    \/ /\ pending = {}
       /\ \/ \E sid \in connected : handle_join_chat_room(sid, "admins")
          \/ \E sid \in connected, sender_in \in SenderInputs, content_in \in ContentInputs,
                room_in \in {PyNone, "admins"} :
                  handle_send_message(sid, sender_in, content_in, room_in)
          \/ RoomRestNext
    \/ \E p \in pending : handle_join_chat_room_emit(p)
    \/ SendSteps({"ok", "flush_fail", "commit_fail"})
    \/ RestSteps({"ok", "flush_fail", "commit_fail"})

SpecSequential == Init /\ [][SequentialNext]_vars
\* ----------------------------------------------------------- properties
\* the emits that publish a mutation, as opposed to the answers a socket
\* handler sends back to its caller
DomainEvent(e) == e.event \notin {"status", "error"}

\* the positions of the log
Entries == 1..Len(log)

\* the emit a step has just added to the log
Last(lg) == lg[Len(lg)]

\* C1: an event is published only by a request whose commit has succeeded, and
\* a request whose commit failed and was rolled back publishes nothing.
C1_PublishOnlyAfterCommit ==
    /\ \A i \in Entries :
          DomainEvent(log[i]) => \E c \in committed : c.rid = log[i].rid
    /\ \A f \in failed : \A i \in Entries : DomainEvent(log[i]) => log[i].rid # f.rid
    /\ \A f \in failed : \A c \in committed : c.rid # f.rid

\* C1 witness: a POST /bills failed at its INSERT, before an id was drawn, and
\* an approval failed at its commit; neither published anything. A third
\* HTTP mutation went through and published its event.
C1_Witness ==
    /\ \E f \in failed : f.op = "bill_create" /\ idSeq["bills"] = 0
    /\ \E f \in failed : f.op = "payment_approve"
    /\ \E c \in committed : \E i \in Entries :
          c.op # "send_message" /\ DomainEvent(log[i]) /\ log[i].rid = c.rid
    /\ C1_PublishOnlyAfterCommit

\* C2: every committed mutation whose handler has finished has published
\* exactly one event.
C2_ExactlyOneEventPerCommit ==
    \A c \in committed :
        c.rid \notin InFlight =>
        Cardinality({i \in Entries : DomainEvent(log[i]) /\ log[i].rid = c.rid}) = 1

\* C3: a connection that receives an event published to a room has joined
\* that room by a join request of its own.
C3_OnlyJoinedReceive ==
    \A i \in Entries :
        (DomainEvent(log[i]) /\ log[i].room # PyNone) =>
            \A c \in log[i].to : <<c, log[i].room>> \in joined

\* C4: an emit to a room does not reach a connection whose last membership
\* request for that room was a leave.
C4_LeftReceivesNothing ==
    [][Len(log') = Len(log) + 1 =>
          \A c \in Last(log').to : <<c, Last(log').room>> \notin left']_vars

\* C4 witness: a connection joined a room and left it, and an event published
\* to the room afterwards passed it by.
C4_Witness ==
    \E i, j, k \in Entries : \E c \in connected :
        /\ i < j /\ j < k
        /\ log[i].event = "status" /\ log[i].sid = c
        /\ log[i].payload.msg = "Joined admins"
        /\ log[j].event = "status" /\ log[j].sid = c
        /\ log[j].payload.msg = "Left admins"
        /\ DomainEvent(log[k]) /\ log[k].room = "admins"
        /\ c \notin log[k].to
        /\ <<c, "admins">> \in left

\* C5: the history lists the messages in non-decreasing message_id order.
C5_HistoryInIdOrder ==
    \A i, j \in 1..Len(history) : i < j => history[i].message_id <= history[j].message_id

\* C6: the answer to a send_message without sender_id or content reaches the
\* connection that sent it and no other, and nothing is stored or published
\* for it.
C6_InvalidSendAnswersSenderOnly ==
    \A i \in Entries :
        (log[i].event = "error" /\ log[i].payload.message = "Missing sender_id or content") =>
            /\ log[i].to = {log[i].sid}
            /\ log[i].rid = 0

\* C7: when the commit of a chat message fails, the error reaches the sender
\* and no other connection, no receive_message is published for the request
\* and no row of it is stored.
C7_FailedSendAnswersSenderOnly ==
    \A f \in failed :
        f.op = "send_message" =>
            /\ \E i \in Entries : log[i].rid = f.rid
            /\ \A i \in Entries :
                  log[i].rid = f.rid =>
                      /\ log[i].event = "error"
                      /\ log[i].payload.message = "Failed to send message"
                      /\ log[i].to = {log[i].sid}
            /\ Cardinality(chat_messages) =
                   Cardinality({c \in committed : c.op = "send_message"})

\* C8: the status answer to a join or leave request reaches the requesting
\* connection and no other.
C8_StatusAnswersRequesterOnly ==
    \A i \in Entries : log[i].event = "status" => log[i].to = {log[i].sid}

\* the events the handlers publish with broadcast=True
BroadcastEvents ==
    {"new_announcement", "announcement_updated", "announcement_deleted",
     "new_bill_created", "bill_updated", "bill_deleted", "payment_approved",
     "new_calendar_event"}

\* C9: a connection that has disconnected is in no room, and no emit made
\* after the disconnect, to a room or to everyone, reaches it.
C9_DisconnectedReceivesNothing ==
    [][/\ \A sid \in Allocated' \ connected' : \A room \in RoomNames : sid \notin rooms'[room]
       /\ Len(log') = Len(log) + 1 => Last(log').to \subseteq connected']_vars

\* C9 witness: a connection joined the admins room and disconnected without
\* leaving it; of the events emitted afterwards, one to the room and one to
\* everyone, which reached the connection that was live, neither reached it.
C9_Witness ==
    \E i, j, k \in Entries : \E sid \in Allocated \ connected :
        /\ i < j /\ i < k
        /\ log[i].event = "status" /\ log[i].sid = sid
        /\ log[i].payload.msg = "Joined admins"
        /\ <<sid, "admins">> \notin left
        /\ DomainEvent(log[j]) /\ log[j].room = "admins"
        /\ sid \notin log[j].to
        /\ log[k].event \in BroadcastEvents /\ log[k].room = PyNone
        /\ log[k].to # {} /\ sid \notin log[k].to

\* C10: a connection made after another one ended starts with an empty
\* membership set, so that it is in no room as long as it has asked for none;
\* it is in none of the rooms the ended one had joined, and receives nothing
\* published to them, unless it has asked to join the room itself.
C10_MembershipEndsWithSession ==
    \A s \in connected : \A d \in earlier[s] :
        /\ (\A room \in RoomNames : <<s, room>> \notin joined) =>
              \A room \in RoomNames : s \notin rooms[room]
        /\ \A room \in RoomNames :
              (<<d, room>> \in joined /\ <<s, room>> \notin joined) =>
                  /\ s \notin rooms[room]
                  /\ \A i \in Entries : log[i].room = room => s \notin log[i].to

\* C11: an announcement, bill, payment_approved or calendar event is emitted
\* to no room and reaches every connection that is live when it is emitted,
\* whatever rooms the connection is in.
C11_BroadcastReachesAllLive ==
    [][(Len(log') = Len(log) + 1 /\ Last(log').event \in BroadcastEvents) =>
          /\ Last(log').room = PyNone
          /\ Last(log').to = connected']_vars

\* C11 witness: a broadcast event reached two connections, one of them in the
\* admins room and the other in no room it asked for.
C11_Witness ==
    \E i \in Entries : \E a, b \in connected :
        /\ log[i].event \in BroadcastEvents
        /\ a # b /\ {a, b} \subseteq log[i].to
        /\ <<a, "admins">> \in joined
        /\ \A room \in RoomNames : <<b, room>> \notin joined

\* C12: an event is emitted once, by the request that publishes it, and
\* nothing is sent again later. A step emits at most one packet and adds no
\* recipient to an earlier one; a connect, and the join_room or leave_room
\* call of a membership handler, emit nothing; the only packet such a handler
\* sends is its status answer, to the room of the requester; and a published
\* event is emitted by the emit step of a request that has emitted no event
\* before.
C12_NoReplay ==
    [][/\ Len(log') \in {Len(log), Len(log) + 1}
       /\ \A i \in Entries : log'[i] = log[i]
       /\ (rooms' # rooms \/ connected' # connected) => log' = log
       /\ \A p \in pending :
             (p.pc = "ack" /\ StatusAck(p)) =>
                 /\ Last(log').event = "status"
                 /\ Last(log').room = p.sid
       /\ (Len(log') > Len(log) /\ DomainEvent(Last(log'))) =>
             /\ \E p \in pending : p.rid = Last(log').rid /\ p.pc = "emit"
             /\ \A j \in Entries : DomainEvent(log[j]) => log[j].rid # Last(log').rid]_vars

\* C12 witness: an event went to the admins room and another to everyone who
\* was live; a connection made after both joined the admins room and was
\* answered, and that answer is all it has received.
C12_Witness ==
    \E i, j, k \in Entries : \E c \in connected :
        /\ i < k /\ j < k
        /\ DomainEvent(log[i]) /\ log[i].room = "admins" /\ c \notin log[i].to
        /\ log[j].event \in BroadcastEvents /\ log[j].room = PyNone
        /\ log[j].to # {} /\ c \notin log[j].to
        /\ log[k].event = "status" /\ log[k].sid = c
        /\ log[k].payload.msg = "Joined admins"
        /\ c \in rooms["admins"]
        /\ \A n \in Entries : c \in log[n].to => n = k

\* C13: one event emitted to a room is one packet, with one payload, to every
\* connection that is in the room at that moment.
C13_EveryMemberReceives ==
    [][(Len(log') > Len(log) /\ DomainEvent(Last(log')) /\ Last(log').room # PyNone) =>
          /\ Len(log') = Len(log) + 1
          /\ Last(log').to = rooms[Last(log').room]
          /\ rooms' = rooms]_vars

\* C13 witness: two connections were in the admins room and one event emitted
\* to it reached both.
C13_Witness ==
    \E i \in Entries : \E a, b \in connected :
        /\ a # b
        /\ DomainEvent(log[i]) /\ log[i].room = "admins"
        /\ {a, b} \subseteq log[i].to
        /\ {<<a, "admins">>, <<b, "admins">>} \subseteq joined

\* the events the handlers publish with room='admins'
AdminEvents ==
    {"new_repair_request", "new_booking_request", "new_payment_receipt",
     "new_visitor_registered", "new_incident_reported"}

\* the events the handlers publish to the personal room of a request's owner
PersonalEvents == {"repair_status_updated", "booking_status_updated"}

\* the request a personal event is about, as tables tbls store it
RequestIn(tbls, e) ==
    IF e.event = "repair_status_updated"
    THEN CHOOSE r \in tbls["repair_requests"] : r.id = e.payload.request_id
    ELSE CHOOSE r \in tbls["booking_requests"] : r.id = e.payload.booking_id

RequestOf(e) == RequestIn(tables, e)

\* C14: every event is emitted to the target its type is assigned: the staff
\* notifications to room admins, the status updates to the personal room of
\* the request's owner, a chat message to the chat room it names, and the
\* announcement, bill, payment_approved and calendar events to everyone.
C14_AddressingPolicy ==
    \A i \in Entries :
        /\ log[i].event \in AdminEvents => log[i].room = "admins"
        /\ log[i].event \in PersonalEvents =>
              log[i].room = UserRoom(RequestOf(log[i]).user_id)
        /\ log[i].event = "receive_message" =>
              /\ log[i].room # PyNone
              /\ log[i].room = log[i].payload.room_name
        /\ log[i].event \in BroadcastEvents => log[i].room = PyNone

\* the connections in a room by their own requests: live, a join handler has
\* entered them, and their last request for the room was not a leave
Subscribed(room) == {c \in connected : <<c, room>> \in joined \ left}

\* C15: a status update of a repair or booking request names the owner the
\* request has when it is read back after the commit, is emitted once to the
\* room user_<id> of that owner, and reaches exactly the live connections that
\* joined that room and did not leave it.
C15_PersonalRoomDelivery ==
    [][/\ \A p \in pending :
             (p.op \in {"repair_update", "booking_update"} /\ SessionRefresh(p, "ok")) =>
                 \E q \in pending' :
                     /\ q.rid = p.rid
                     /\ q.payload.user_id = Row(p.t, p.row.id).user_id
                     /\ q.room = UserRoom(q.payload.user_id)
       /\ (Len(log') > Len(log) /\ Last(log').event \in PersonalEvents) =>
             /\ Len(log') = Len(log) + 1
             /\ \E p \in pending :
                   /\ p.rid = Last(log').rid
                   /\ p.payload = Last(log').payload
                   /\ p.room = Last(log').room
             /\ \A j \in Entries : log[j].rid # Last(log').rid
             /\ Last(log').room = UserRoom(Last(log').payload.user_id)
             /\ Last(log').to = Subscribed(Last(log').room)]_vars

\* C15 witness: of two live connections, the one that sent join_user_room
\* for user 1 received the status update of a request owned by user 1, and
\* the other, which did not, received nothing.
C15_Witness ==
    \E i \in Entries : \E a, b \in connected :
        /\ a # b
        /\ log[i].event \in PersonalEvents
        /\ log[i].payload.user_id = 1
        /\ log[i].to = {a}
        /\ <<a, UserRoom(1)>> \in joined
        /\ <<b, UserRoom(1)>> \notin joined

\* a connection joined the room of user 1, left it, and the status update
\* emitted afterwards for a request of user 1 reached nobody
C15_LeftCase ==
    \E i, j, k \in Entries : \E a \in connected :
        /\ i < j /\ j < k
        /\ log[i].event = "status" /\ log[i].sid = a
        /\ log[i].payload.msg = "Joined personal room user_1"
        /\ log[j].event = "status" /\ log[j].sid = a
        /\ log[j].payload.msg = "Left user_1"
        /\ log[k].event \in PersonalEvents /\ log[k].payload.user_id = 1
        /\ log[k].to = {}

\* the largest element of a non-empty set of numbers
Max(S) == CHOOSE x \in S : \A y \in S : y <= x

\* the ids of the messages stored in a room before message_id was assigned
PriorIds(room_name, message_id) ==
    {m.message_id : m \in {r \in chat_messages :
                              r.room_name = room_name /\ r.message_id < message_id}}

\* C16: the message_id of a published chat message is one greater than the
\* largest message_id stored before it in the same room.
C16_IdIsRoomMaxPlusOne ==
    \A i \in Entries :
        log[i].event = "receive_message" =>
            LET prior == PriorIds(log[i].payload.room_name, log[i].payload.message_id) IN
            prior # {} => log[i].payload.message_id = Max(prior) + 1

\* whether history entry h is chat message payload p, field by field
SameMessage(h, p) ==
    /\ h.message_id = p.message_id
    /\ h.sender_id = p.sender_id
    /\ h.content = p.content
    /\ h.timestamp = p.timestamp
    /\ h.room_name = p.room_name

\* the payloads of the chat messages published so far
Published == {log[i].payload : i \in {j \in Entries : log[j].event = "receive_message"}}

\* what the history reads in flight in pend have loaded with their list
\* query, as the entries they will return
Listings(pend) ==
    {[k \in 1..Len(p.rows) |-> MessagePayload(users, p.rows[k])] :
        p \in {q \in pend : q.op = "get_chat_messages"}}

\* C17: a history read lists every chat message published before it with the
\* fields it was published with, and when the message committed last is a
\* published one, the read returns it as its last entry.
C17_HistoryReplaysTheLog ==
    [][\A h \in Listings(pending') \ Listings(pending) :
          /\ \A p \in Published : \E k \in 1..Len(h) : SameMessage(h[k], p)
          /\ \A p \in Published :
                p.message_id = msgSeq => SameMessage(h[Len(h)], p)]_vars

\* C18: when requests are handled one after the other, a connection receives
\* their events in the order the requests were handled.
C18_SequentialOrder ==
    \A i, j \in Entries :
        (i < j /\ DomainEvent(log[i]) /\ DomainEvent(log[j])) =>
            \A c \in log[i].to \cap log[j].to : log[i].rid < log[j].rid

\* C18 witness: one connection received the chat messages of two successive
\* send_message requests, the first before the second.
C18_Witness ==
    \E i, j \in Entries : \E c \in connected :
        /\ i < j
        /\ log[i].event = "receive_message" /\ log[j].event = "receive_message"
        /\ c \in log[i].to \cap log[j].to
        /\ log[i].rid = 1 /\ log[j].rid = 2
        /\ log[i].payload.message_id < log[j].payload.message_id

\* the status codes of the success responses of the publishing routes
SuccessCodes == {200, 201, 204}

\* C19: an emit that finds nobody in its room is not an error: the request
\* that made it is committed, an HTTP caller gets the route's success
\* response, no error packet is emitted, and the packet is kept for nobody.
C19_EmptyRoomIsNoError ==
    [][(Len(log') > Len(log) /\ DomainEvent(Last(log')) /\ Last(log').to = {}) =>
          /\ Len(log') = Len(log) + 1
          /\ \A i \in Entries : log'[i] = log[i]
          /\ \E c \in committed' : c.rid = Last(log').rid
          /\ \A f \in failed' : f.rid # Last(log').rid
          /\ Last(log').sid = PyNone => response'.status \in SuccessCodes]_vars

\* C19 witness: a repair request was updated while nobody was in its owner's
\* room; the update is committed, the caller got 200 and the only packet of
\* the request is the one that reached nobody.
C19_Witness ==
    \E i \in Entries :
        /\ log[i].event = "repair_status_updated"
        /\ log[i].to = {}
        /\ rooms[log[i].room] = {}
        /\ [rid |-> log[i].rid, op |-> "repair_update"] \in committed
        /\ response = [op |-> "repair_update", status |-> 200]
        /\ \A j \in Entries : log[j].rid = log[i].rid => j = i

\* C20: a join_chat_room request that names admins puts the requesting
\* connection into the room, whoever sends it, and every staff notification
\* emitted from then on reaches every live connection that asked for the room.
C20_AnyoneJoinsAdmins ==
    [][/\ \A sid \in connected :
             handle_join_chat_room(sid, "admins") =>
                 /\ sid \in rooms'["admins"]
                 /\ Ack("join_chat_room", sid, "Joined admins") \in pending'
                 /\ log' = log
       /\ (Len(log') > Len(log) /\ Last(log').event \in AdminEvents) =>
             /\ Last(log').room = "admins"
             /\ Subscribed("admins") \subseteq Last(log').to]_vars

\* C20 witness: two connections asked for the admins room, and an incident
\* report filed by user 3, who is no seeded user, reached both.
C20_Witness ==
    \E i \in Entries : \E a, b \in connected :
        /\ a # b
        /\ {<<a, "admins">>, <<b, "admins">>} \subseteq joined
        /\ log[i].event = "new_incident_reported"
        /\ log[i].payload.user_id = 3
        /\ {a, b} \subseteq log[i].to

\* the events that carry the name of an announcement's author
AuthorEvents == {"new_announcement", "announcement_updated"}

\* the name a payload must carry for the user id it carries, with users
\* table u
NameFor(op, payload, u) ==
    IF op \in {"announcement_create", "announcement_update"}
    THEN payload.author_name =
            IF payload.author_id \in DOMAIN u THEN u[payload.author_id].name
            ELSE "Unknown Author"
    ELSE payload.user_name =
            IF payload.user_id \in DOMAIN u THEN u[payload.user_id].name
            ELSE "Unknown User"

\* C21: the payload of an event about a row whose author or submitter is no
\* stored user is built with 'Unknown Author' (announcements) or 'Unknown
\* User' (the other rows) as the name, otherwise with the user's name, and
\* the event is published with that payload, once.
C21_PlaceholderName ==
    [][/\ \A p \in pending :
             (p.op \in NamesUser /\ (SessionRefresh(p, "ok") \/ SessionLoadUser(p))) =>
                 \A q \in pending' :
                     (q.rid = p.rid /\ q.pc = "emit") => NameFor(q.op, q.payload, users)
       /\ (Len(log') > Len(log) /\ Last(log').event \in AdminEvents \cup AuthorEvents) =>
             /\ Len(log') = Len(log) + 1
             /\ \E p \in pending :
                   /\ p.rid = Last(log').rid
                   /\ p.op \in NamesUser
                   /\ p.payload = Last(log').payload
             /\ \A j \in Entries : log[j].rid # Last(log').rid]_vars

\* C21 witness: an announcement without an author and a repair request of a
\* user that is not stored were committed and published with the placeholders.
C21_Witness ==
    \E i, j \in Entries :
        /\ log[i].event = "new_announcement"
        /\ log[i].payload.author_id = IdNone
        /\ log[i].payload.author_name = "Unknown Author"
        /\ log[j].event = "new_repair_request"
        /\ log[j].payload.user_id = 3
        /\ log[j].payload.user_name = "Unknown User"
        /\ {[rid |-> log[i].rid, op |-> "announcement_create"],
            [rid |-> log[j].rid, op |-> "repair_create"]} \subseteq committed

\* the avatar rule of the chat payloads: the sender's stored avatar when there
\* is one, otherwise the first character of the sender's name, and '?' when
\* the sender is no stored user
FallbackAvatar(u, sender_id) ==
    IF sender_id \in DOMAIN u
    THEN IF Truthy(u[sender_id].avatar) THEN u[sender_id].avatar
                                        ELSE FirstUpper(u[sender_id].name)
    ELSE "?"

\* the entry a history read in flight adds to its result in its next loop turn
EntryBuilt(p) == MessagePayload(SessionUsers(p), p.rows[Len(p.result) + 1])

\* C22: the sender_avatar of a published chat message and of every history
\* entry follows the avatar rule, and the two handlers give the same name and
\* avatar for the same sender.
C22_AvatarFallback ==
    [][\A p \in pending :
          /\ (p.op = "send_message" /\ handle_send_message_lookup(p, "ok")) =>
                \E q \in pending' :
                    /\ q.rid = p.rid
                    /\ q.sender_avatar = FallbackAvatar(users, p.sender_id)
                    /\ q.sender_name = SenderName(users, p.sender_id)
          /\ (p.op = "get_chat_messages" /\ get_chat_messages_sender(p)) =>
                LET entry == EntryBuilt(p) IN
                /\ entry.sender_avatar = FallbackAvatar(SessionUsers(p), entry.sender_id)
                /\ entry.sender_name = SenderName(SessionUsers(p), entry.sender_id)]_vars

\* C23: a vote request by a user who already has a vote row in that poll is
\* answered 409 in the request itself, adds no row and emits no event.
C23_SecondVoteRejected ==
    [][\A poll_id \in PollInputs, option_id \in OptionInputs, user_id \in DOMAIN users :
         ((\E r \in tables["voting_results"] : r.poll_id = poll_id /\ r.user_id = user_id)
          /\ manage_voting_results_POST(poll_id, option_id, user_id))
         => /\ response' = [op |-> "vote", status |-> 409]
            /\ tables' = tables
            /\ pending' = pending
            /\ log' = log]_vars

\* a second vote of the same user in the same poll has been answered 409 with
\* the first vote as the only row, while the request that cast the first vote
\* has committed it and is not answered yet
C23_Witness ==
    /\ response = [op |-> "vote", status |-> 409]
    /\ Cardinality(tables["voting_results"]) = 1
    /\ nreq = 1
    /\ \E p \in pending : p.op = "vote" /\ p.pc = "reload"
    /\ log = <<>>

\* C25: whatever the interleaving of concurrent POST /voting-results
\* requests, the table holds at most one row per (poll_id, user_id).
C25_OneVotePerUser ==
    \A r1, r2 \in tables["voting_results"] :
        (r1.poll_id = r2.poll_id /\ r1.user_id = r2.user_id) => r1 = r2

\* the log entries of request rid that carry the given event
EntriesOf(rid, event) == {i \in Entries : log[i].rid = rid /\ log[i].event = event}

\* C24: a send_message that has finished ends either with its row stored and one
\* receive_message published, or with no row and one error to its sender; a
\* sender told 'Failed to send message' has no row of that request stored,
\* also when the failure came after the commit.
C24_SendAllOrNothing ==
    /\ \A c \in committed :
          (c.op = "send_message" /\ c.rid \notin InFlight) =>
              /\ Cardinality(EntriesOf(c.rid, "receive_message")) = 1
              /\ EntriesOf(c.rid, "error") = {}
    /\ \A f \in failed :
          f.op = "send_message" =>
              /\ Cardinality(EntriesOf(f.rid, "error")) = 1
              /\ EntriesOf(f.rid, "receive_message") = {}
              /\ \A i \in EntriesOf(f.rid, "error") : log[i].to \subseteq {log[i].sid}
    /\ Cardinality(chat_messages) = Cardinality({c \in committed : c.op = "send_message"})

\* the stored row a receive_message entry was published for
MessageRowIn(msgs, e) == CHOOSE m \in msgs : m.message_id = e.payload.message_id

\* C26: for every form of room_name the row's room, the payload's room_name
\* and the room the message is emitted to are one room, and the message
\* reaches no connection outside that room.
C26_OneRoomThroughout ==
    [][(Len(log') > Len(log) /\ Last(log').event = "receive_message") =>
          LET e == Last(log')
              row == MessageRowIn(chat_messages', e) IN
            /\ e.payload.room_name = row.room_name
            /\ e.room = row.room_name
            /\ e.to \subseteq rooms[row.room_name]]_vars

\* C27: an approval whose status is neither paid nor rejected is answered 400,
\* leaves every payment and bill as it was and publishes no event.
C27_InvalidApprovalRejected ==
    [][\A payment_id \in Ids("payments"), status_in \in ApproveInputs :
         (approve_payment(payment_id, status_in)
          /\ status_in \notin {Missing, "paid", "rejected"})
         => /\ response' = [op |-> "payment_approve", status |-> 400]
            /\ tables' = tables
            /\ pending' = pending
            /\ log' = log]_vars

\* an approval has been answered 400 with a payment linked to a bill still
\* pending, its bill still unpaid and no payment_approved in the log
C27_Witness ==
    /\ response = [op |-> "payment_approve", status |-> 400]
    /\ \E p \in tables["payments"] :
          /\ p.status = "pending"
          /\ \E b \in tables["bills"] : b.id = p.bill_id /\ b.status = "unpaid"
    /\ \A i \in Entries : log[i].event # "payment_approved"
    /\ pending = {}

\* Bills.status as the model documents it
BillStates == {"unpaid", "paid", "pending_verification"}

\* C28: the commit of an approval changes the payment and the bill loaded for
\* it together, to the status it names, and every bill stays in one of the documented bill states.
C28_BillFollowsApproval ==
    [][\A p \in pending :
         (p.op = "payment_approve" /\ SessionCommit(p, "ok")) =>
            LET bill_id == p.bill.id
                after == CHOOSE r \in tables'["payments"] : r.id = p.row.id IN
              /\ \A b \in tables'["bills"] :
                    /\ b.status \in BillStates
                    /\ b.id = bill_id => b.status = after.status
                    /\ b.id # bill_id => b \in tables["bills"]]_vars

====
